---- MODULE Spec2Model ----
(***************************************************************************)
(* State-machine model of the admission-and-integrity core of the Secure   *)
(* Fraud Detection API: API-key authentication (app/auth.py, app/main.py), *)
(* the in-memory rate limiter and the request-id middleware                *)
(* (app/middleware.py), the checksum-verified artifact loader              *)
(* (app/model_loader.py), the audit sink (app/audit_logger.py) and the     *)
(* /v1/predict route (app/main.py, app/routes/predict.py).                 *)
(*                                                                         *)
(* Python str values are TLA+ strings; an Optional[str] is <<>> (None) or  *)
(* the one-element tuple <<s>>.                                            *)
(***************************************************************************)
EXTENDS Integers, Sequences, FiniteSets, TLC

VARIABLES
    environ,      \* os.environ restricted to the two API-key variables
    auth_call,    \* the last call of authenticate / require_api_key and its outcome
    rl_max,       \* SimpleRateLimitMiddleware._max_requests
    rl_window,    \* SimpleRateLimitMiddleware._window_seconds
    rl_state,     \* SimpleRateLimitMiddleware._state: identity -> <<window_start, count>>
    clock,        \* time.time()
    rl_log,       \* history: one record per dispatch call of the rate limiter
    tasks,        \* the dispatch coroutines in flight on the event loop
    fs_manifest,  \* model_artifacts/manifest.json: <<>> when absent, else <<document>>
    fs_files,     \* artifact files: path -> content
    load_log,     \* history: one record per load_active_model call
    audit_log,    \* logs/audit.log: the content of the file, a string
    audit_calls,  \* history: one record per write_audit_event call
    app_mw,       \* whether RequestIdMiddleware wraps the application
    app_rl,       \* SimpleRateLimitMiddleware: "none", or "outside" / "inside" RequestIdMiddleware
    last_req,     \* history: the last /v1/predict request and its response
    built         \* history: the last response construction and its outcome

vars == <<environ, auth_call, rl_max, rl_window, rl_state, clock, rl_log, tasks,
          fs_manifest, fs_files, load_log, audit_log, audit_calls, app_mw, app_rl,
          last_req, built>>

authVars == <<environ, auth_call>>
rateVars == <<rl_max, rl_window, rl_state, clock, rl_log, tasks>>
loaderVars == <<fs_manifest, fs_files, load_log>>
appVars == <<audit_log, audit_calls, app_mw, app_rl, last_req, built>>

(***************************************************************************)
(* Bounds of the model.                                                    *)
(***************************************************************************)
MaxStrLen == 3

(***************************************************************************)
(* Python values.                                                          *)
(***************************************************************************)
None == <<>>
Some(s) == <<s>>
IsNone(x) == x = <<>>
Val(x) == x[1]

\* Python truthiness of an Optional[str]: None and "" are falsy.
Truthy(x) == ~IsNone(x) /\ Val(x) # ""

IsSpace(c) == c = " "

RECURSIVE lstrip(_)
lstrip(s) ==
    IF Len(s) > 0 /\ IsSpace(SubSeq(s, 1, 1))
    THEN lstrip(SubSeq(s, 2, Len(s)))
    ELSE s

RECURSIVE rstrip(_)
rstrip(s) ==
    IF Len(s) > 0 /\ IsSpace(SubSeq(s, Len(s), Len(s)))
    THEN rstrip(SubSeq(s, 1, Len(s) - 1))
    ELSE s

\* str.strip(): leading and trailing whitespace removed.
strip(s) == rstrip(lstrip(s))

\* All strings over the characters cs of length exactly n / at most n.
RECURSIVE StrsOfLen(_, _)
StrsOfLen(cs, n) ==
    IF n = 0 THEN {""}
    ELSE {s \o c : s \in StrsOfLen(cs, n - 1), c \in cs}

StrsUpTo(cs, n) == UNION {StrsOfLen(cs, k) : k \in 0..n}

(***************************************************************************)
(* app/auth.py and app/main.py: API-key authentication.                    *)
(***************************************************************************)
KeyChars == {" ", "a"}
KeyStrs == StrsUpTo(KeyChars, MaxStrLen)
EnvNames == {"API_KEY_ADMIN", "API_KEY_SERVICE"}
Credentials == {None} \cup {Some(s) : s \in KeyStrs}
Environs == UNION {[names -> KeyStrs] : names \in SUBSET EnvNames}

\* os.getenv(name, default)
getenv(name, default) ==
    IF name \in DOMAIN environ THEN environ[name] ELSE default

_read_env_value(name) == strip(getenv(name, ""))

_load_api_keys ==
    [admin |-> _read_env_value("API_KEY_ADMIN"),
     service |-> _read_env_value("API_KEY_SERVICE")]

Raise(code, msg) ==
    [status |-> code, detail |-> msg, role |-> "", key_id |-> ""]

CallerIdentity(r, k) ==
    [status |-> 200, detail |-> "", role |-> r, key_id |-> k]

\* Variant: the service key is tried before the admin key.
authenticate_swapped(x_api_key) ==
    IF ~Truthy(x_api_key) \/ strip(Val(x_api_key)) = ""
    THEN Raise(401, "Missing API key (X-API-Key).")
    ELSE LET provided_key == strip(Val(x_api_key))
             admin_key == _load_api_keys.admin
             service_key == _load_api_keys.service
         IN  IF admin_key = "" /\ service_key = ""
             THEN Raise(403, "API keys are not configured on the server.")
             ELSE IF service_key # "" /\ provided_key = service_key
             THEN CallerIdentity("service", "service-key")
             ELSE IF admin_key # "" /\ provided_key = admin_key
             THEN CallerIdentity("admin", "admin-key")
             ELSE Raise(403, "Invalid API key.")

authenticate(x_api_key) ==
    IF ~Truthy(x_api_key) \/ strip(Val(x_api_key)) = ""
    THEN Raise(401, "Missing API key (X-API-Key).")
    ELSE LET provided_key == strip(Val(x_api_key))
             admin_key == _load_api_keys.admin
             service_key == _load_api_keys.service
         IN  IF admin_key = "" /\ service_key = ""
             THEN Raise(403, "API keys are not configured on the server.")
             ELSE IF admin_key # "" /\ provided_key = admin_key
             THEN CallerIdentity("admin", "admin-key")
             ELSE IF service_key # "" /\ provided_key = service_key
             THEN CallerIdentity("service", "service-key")
             ELSE Raise(403, "Invalid API key.")

\* require_api_key returns the key itself; the role fields stay empty.
Passed == [status |-> 200, detail |-> "", role |-> "", key_id |-> ""]

\* Variant: without the `if not x_api_key` guard.
require_api_key_no_empty_check(x_api_key) ==
    LET allowed_keys == {getenv("API_KEY_ADMIN", ""), getenv("API_KEY_SERVICE", "")}
    IN  IF IsNone(x_api_key) \/ Val(x_api_key) \notin allowed_keys
        THEN Raise(403, "Invalid API key.")
        ELSE Passed

\* Variant: any non-empty key passes.
require_api_key_presence_only(x_api_key) ==
    IF ~Truthy(x_api_key) THEN Raise(403, "Invalid API key.") ELSE Passed

require_api_key(x_api_key) ==
    IF ~Truthy(x_api_key)
    THEN Raise(403, "Invalid API key.")
    ELSE LET allowed_keys ==
                 {getenv("API_KEY_ADMIN", ""), getenv("API_KEY_SERVICE", "")}
         IN  IF Val(x_api_key) \notin allowed_keys
             THEN Raise(403, "Invalid API key.")
             ELSE Passed

NoCall == [fn |-> "none", arg |-> None, result |-> Raise(0, "")]

\* One call of authenticate(x_api_key).
Authenticate ==
    \E x \in Credentials :
        /\ auth_call' = [fn |-> "authenticate", arg |-> x, result |-> authenticate(x)]
        /\ UNCHANGED environ

\* One evaluation of the require_api_key dependency.
RequireApiKey ==
    \E x \in Credentials :
        /\ auth_call' =
               [fn |-> "require_api_key", arg |-> x, result |-> require_api_key(x)]
        /\ UNCHANGED environ

(***************************************************************************)
(* app/middleware.py: SimpleRateLimitMiddleware.                           *)
(***************************************************************************)
MaxLimit == 2
MaxWindow == 2
MaxTime == 4
MaxCalls == 3
MaxBurst == 4
NTasks == 3

\* X-API-Key header values seen by the rate limiter.
RateHeaders == {None, Some("k1"), Some(" k1 "), Some("k2")}

_get_identity(api_key) ==
    IF Truthy(api_key) THEN strip(Val(api_key)) ELSE "anonymous"

\* self._state.get(identity, default)
StateGet(identity, default) ==
    IF identity \in DOMAIN rl_state THEN rl_state[identity] ELSE default

\* Variant: the assignment replaces the whole dictionary.
StateSet_replacing(identity, entry) == [i \in {identity} |-> entry]

\* self._state[identity] = entry
StateSet(identity, entry) ==
    [i \in DOMAIN rl_state \cup {identity} |->
        IF i = identity THEN entry ELSE rl_state[i]]

\* Variant: the window expires at exactly window_seconds.
WindowExpired_inclusive(now, window_start) == (now - window_start) >= rl_window

\* Variant: the window expires as soon as any time has passed.
WindowExpired_ignores_length(now, window_start) == (now - window_start) > 0

\* if (now - window_start) > self._window_seconds
WindowExpired(now, window_start) == (now - window_start) > rl_window

\* Variant: the increment of a rejected request is not kept.
StoredEntry_admitted_only(window_start, count) ==
    <<window_start, IF count > rl_max THEN count - 1 ELSE count>>

\* The tuple written back at line 97: (window_start, count), for every request.
StoredEntry(window_start, count) == <<window_start, count>>

\* Variant: the limit compared with >=.
OverLimit_off_by_one(count) == count >= rl_max

\* if count > self._max_requests
OverLimit(count) == count > rl_max

\* SimpleRateLimitMiddleware.dispatch for one request carrying X-API-Key = hdr.
\* The body has no await before the counter is stored, so it is one step.
\* In rl_log, status 200 stands for the response of the downstream handler.
DispatchRecord(hdr) ==
    LET now == clock
        identity == _get_identity(hdr)
        got == StateGet(identity, <<now, 0>>)
        expired == WindowExpired(now, got[1])
        window_start == IF expired THEN now ELSE got[1]
        count == (IF expired THEN 0 ELSE got[2]) + 1
    IN  [identity |-> identity,
         now |-> now,
         fresh |-> identity \notin DOMAIN rl_state,
         reset |-> expired,
         stored |-> StoredEntry(window_start, count),
         status |-> IF OverLimit(count) THEN 429 ELSE 200,
         forwarded |-> ~OverLimit(count)]

\* The effect of dispatch on the limiter: the counter stored, the call logged.
Dispatch(hdr) ==
    LET rec == DispatchRecord(hdr)
    IN  /\ rl_state' = StateSet(rec.identity, rec.stored)
        /\ rl_log' = Append(rl_log, rec)
        /\ UNCHANGED <<rl_max, rl_window, clock, tasks>>

\* A request with any of the X-API-Key header values.
RateDispatch ==
    \E hdr \in RateHeaders :
        /\ Len(rl_log) < MaxCalls
        /\ Dispatch(hdr)

\* The callers of a burst: an anonymous one and one API key.
BurstHeaders == {None, Some("k1")}

\* A request of a burst.
BurstDispatch ==
    \E hdr \in BurstHeaders :
        /\ Len(rl_log) < MaxBurst
        /\ Dispatch(hdr)

\* Concurrent requests.  dispatch is a coroutine on one event loop: it runs
\* until it awaits, and only then may another coroutine run.  Its program
\* points are "start" (line 86), "store" (before line 97), "call_next" (the
\* await at line 106) and "done".
TaskIds == 1..NTasks

\* Variant: the coroutine also yields between reading and storing the counter.
RunUntil_yields_before_store(pc) ==
    IF pc = "start" THEN "store"
    ELSE IF pc = "store" THEN "call_next"
    ELSE "done"

\* The point at which a coroutine resumed at pc next yields: lines 86-104 hold
\* no await, the only one is call_next at line 106.
RunUntil(pc) == IF pc = "call_next" THEN "done" ELSE "call_next"

\* Lines 86-96: the locals after the read, the reset test and the increment.
ReadCounter(task) ==
    LET now == clock
        identity == _get_identity(task.hdr)
        got == StateGet(identity, <<now, 0>>)
        expired == WindowExpired(now, got[1])
    IN  [task EXCEPT !.pc = "store",
                     !.window_start = IF expired THEN now ELSE got[1],
                     !.count = (IF expired THEN 0 ELSE got[2]) + 1]

\* Lines 99-106 after the store: reject with 429, or forward and await.
AfterStore(task) ==
    IF OverLimit(task.count)
    THEN [task EXCEPT !.pc = "done", !.status = 429]
    ELSE [task EXCEPT !.pc = "call_next", !.forwarded = TRUE]

\* The event loop resumes coroutine t, which runs up to its next await.
Resume(t) ==
    LET task == tasks[t]
        stop == RunUntil(task.pc)
    IN  /\ task.pc # "done"
        /\ IF task.pc = "call_next"
           THEN /\ tasks' = [tasks EXCEPT ![t] = [task EXCEPT !.pc = "done", !.status = 200]]
                /\ UNCHANGED rl_state
           ELSE LET read == IF task.pc = "start" THEN ReadCounter(task) ELSE task
                IN  IF stop = "store"
                    THEN /\ tasks' = [tasks EXCEPT ![t] = read]
                         /\ UNCHANGED rl_state
                    ELSE /\ rl_state' = StateSet(_get_identity(read.hdr),
                                                 StoredEntry(read.window_start, read.count))
                         /\ tasks' = [tasks EXCEPT ![t] = AfterStore(read)]
        /\ UNCHANGED <<rl_max, rl_window, clock, rl_log>>

ResumeSome == \E t \in TaskIds : Resume(t)

\* A request received and not yet dispatched.
NewTask(hdr) ==
    [hdr |-> hdr, pc |-> "start", window_start |-> 0, count |-> 0, status |-> 0,
     forwarded |-> FALSE]

\* time.time() advances between requests (a clock that never runs backwards).
Tick ==
    /\ clock < MaxTime
    /\ \E d \in 1..(MaxTime - clock) : clock' = clock + d
    /\ UNCHANGED <<rl_max, rl_window, rl_state, rl_log, tasks>>

(***************************************************************************)
(* app/model_loader.py: the manifest, the artifact and load_active_model.  *)
(*                                                                         *)
(* A parsed JSON value is [t |-> "null"] or [t |-> "str", v |-> s]; the    *)
(* manifest document is a record whose kind says what json.loads gives:    *)
(* "bad_json" (json.loads raises), "not_object" (no .get), or "object"     *)
(* with its active_model entry.  An artifact's content is a number and     *)
(* SHA-256 is an injective map from contents to lowercase hex strings.     *)
(***************************************************************************)
NContents == 2
MaxLoads == 2
ScoreSlack == 2

Contents == 1..NContents

HexLower == "abcdef"
HexUpper == "ABCDEF"

LowerChar(c) ==
    IF \E i \in 1..Len(HexUpper) : SubSeq(HexUpper, i, i) = c
    THEN LET i == CHOOSE i \in 1..Len(HexUpper) : SubSeq(HexUpper, i, i) = c
         IN  SubSeq(HexLower, i, i)
    ELSE c

UpperChar(c) ==
    IF \E i \in 1..Len(HexLower) : SubSeq(HexLower, i, i) = c
    THEN LET i == CHOOSE i \in 1..Len(HexLower) : SubSeq(HexLower, i, i) = c
         IN  SubSeq(HexUpper, i, i)
    ELSE c

\* str.lower() / str.upper()
RECURSIVE lower(_)
lower(s) ==
    IF s = "" THEN "" ELSE LowerChar(SubSeq(s, 1, 1)) \o lower(SubSeq(s, 2, Len(s)))

RECURSIVE upper(_)
upper(s) ==
    IF s = "" THEN "" ELSE UpperChar(SubSeq(s, 1, 1)) \o upper(SubSeq(s, 2, Len(s)))

\* hashlib.sha256(content).hexdigest()
_sha256_file(content) == SubSeq(HexLower, content, content + 1) \o "0"

JNull == [t |-> "null"]
JStr(s) == [t |-> "str", v |-> s]

\* str(value) of a parsed JSON value: str(None) is "None".
PyStr(j) == IF j.t = "null" THEN "None" ELSE j.v

\* active.get(key, ""): the default only replaces an absent key.
FieldGet(active, key) ==
    IF key \in DOMAIN active THEN active[key] ELSE JStr("")

ArtifactPath == "model.bin"

VersionValues == {JNull, JStr(""), JStr(" "), JStr("v1"), JStr(" v2 ")}
PathValues == {JNull, JStr(""), JStr(ArtifactPath), JStr(" " \o ArtifactPath \o " ")}
ShaValues ==
    {JNull, JStr("")}
        \cup {JStr(_sha256_file(c)) : c \in Contents}
        \cup {JStr(upper(_sha256_file(c))) : c \in Contents}
        \cup {JStr(" " \o _sha256_file(c) \o " ") : c \in Contents}

FieldValues(key) ==
    IF key = "version" THEN VersionValues
    ELSE IF key = "path" THEN PathValues
    ELSE ShaValues

FieldNames == {"version", "path", "sha256"}

\* The dicts an active_model entry can be: any subset of the three keys.
ActiveDicts ==
    UNION {{f \in [keys -> VersionValues \cup PathValues \cup ShaValues] :
                \A k \in keys : f[k] \in FieldValues(k)} : keys \in SUBSET FieldNames}

ObjectDoc(akind, fields) == [kind |-> "object", active |-> akind, fields |-> fields]

\* active: "absent" (no key), "null", "not_dict" (a truthy value without .get),
\* "dict" (fields gives its entries; the empty dict is falsy).
ManifestDocs ==
    {[kind |-> "bad_json", active |-> "absent", fields |-> <<>>],
     [kind |-> "not_object", active |-> "absent", fields |-> <<>>],
     ObjectDoc("absent", <<>>), ObjectDoc("null", <<>>), ObjectDoc("not_dict", <<>>)}
        \cup {ObjectDoc("dict", f) : f \in ActiveDicts}

Failure(err) == [ok |-> FALSE, error |-> err, version |-> "", artifact_path |-> ""]
ModelHandle(v, p) == [ok |-> TRUE, error |-> "", version |-> v, artifact_path |-> p]

\* The digest comparison of load_active_model.
ChecksumMatches(actual_sha256, declared) ==
    LET expected_sha256 == lower(strip(declared))
    IN  actual_sha256 = expected_sha256

\* load_active_model() against the files given.
LoadFrom(manifest, files) ==
    IF IsNone(manifest) THEN Failure("manifest_missing")
    ELSE LET doc == Val(manifest) IN
    IF doc.kind = "bad_json" THEN Failure("json_decode_error")
    ELSE IF doc.kind = "not_object" THEN Failure("attribute_error")
    ELSE IF doc.active \in {"absent", "null"} \/
            (doc.active = "dict" /\ DOMAIN doc.fields = {})
    THEN Failure("manifest_no_active_model")
    ELSE IF doc.active = "not_dict" THEN Failure("attribute_error")
    ELSE LET active == doc.fields
             version == strip(PyStr(FieldGet(active, "version")))
             artifact_path_str == strip(PyStr(FieldGet(active, "path")))
             declared == PyStr(FieldGet(active, "sha256"))
         IN  IF version = "" \/ artifact_path_str = "" \/ lower(strip(declared)) = ""
             THEN Failure("manifest_fields")
             ELSE IF artifact_path_str \notin DOMAIN files
             THEN Failure("artifact_missing")
             ELSE IF ~ChecksumMatches(_sha256_file(files[artifact_path_str]), declared)
             THEN Failure("checksum_mismatch")
             ELSE ModelHandle(version, artifact_path_str)

\* Variant: a loader that keeps the handle of an earlier successful call.
load_active_model_cached ==
    IF \E i \in 1..Len(load_log) : load_log[i].result.ok
    THEN load_log[CHOOSE i \in 1..Len(load_log) : load_log[i].result.ok].result
    ELSE LoadFrom(fs_manifest, fs_files)

load_active_model == LoadFrom(fs_manifest, fs_files)

FileStates ==
    {<<>>} \cup {[p \in {ArtifactPath} |-> c] : c \in Contents}

\* The releases the mutation actions install: a manifest declaring content c.
ReleaseDoc(c, sha) ==
    ObjectDoc("dict", [k \in FieldNames |->
        IF k = "version" THEN JStr("v1")
        ELSE IF k = "path" THEN JStr(ArtifactPath)
        ELSE JStr(sha)])

ReleaseDocs ==
    {ReleaseDoc(c, _sha256_file(c)) : c \in Contents}
        \cup {ReleaseDoc(1, upper(_sha256_file(1)))}

\* What a call did with the artifact file, by where it ended: exists() at
\* line 66 comes after every manifest check, the read at line 69 after that.
ArtifactAccesses(result) ==
    IF result.ok \/ result.error = "checksum_mismatch" THEN <<"exists", "read">>
    ELSE IF result.error = "artifact_missing" THEN <<"exists">>
    ELSE <<>>

\* One call of load_active_model().
Load ==
    /\ Len(load_log) < MaxLoads
    /\ load_log' = Append(load_log,
           [manifest |-> fs_manifest, files |-> fs_files,
            result |-> load_active_model,
            accesses |-> ArtifactAccesses(load_active_model)])
    /\ UNCHANGED <<fs_manifest, fs_files>>

\* The environment replaces, creates or removes the artifact file.
WriteArtifact ==
    \E c \in Contents :
        /\ fs_files' = [p \in {ArtifactPath} |-> c]
        /\ fs_files' # fs_files
        /\ UNCHANGED <<fs_manifest, load_log>>

RemoveArtifact ==
    /\ fs_files # <<>>
    /\ fs_files' = <<>>
    /\ UNCHANGED <<fs_manifest, load_log>>

\* The environment installs another manifest, or removes it.
WriteManifest ==
    \E d \in ReleaseDocs :
        /\ fs_manifest' = Some(d)
        /\ fs_manifest' # fs_manifest
        /\ UNCHANGED <<fs_files, load_log>>

RemoveManifest ==
    /\ fs_manifest # None
    /\ fs_manifest' = None
    /\ UNCHANGED <<fs_files, load_log>>

(***************************************************************************)
(* app/audit_logger.py: write_audit_event.                                 *)
(*                                                                         *)
(* A dict is the sequence of its <<key, value>> items in insertion order;  *)
(* keys and values are strings.  Objects live in a heap, reference ->      *)
(* dict, so that a copy and an alias differ.  The file is the string of    *)
(* its characters.                                                         *)
(***************************************************************************)
MaxWrites == 2

NL == "\n"
Quote == "\""
Backslash == "\\"

\* Keys and values of the events handed to the sink; the second value holds
\* a newline, a quote and a backslash.
AuditKeys == {"event_type", "timestamp"}
PlainValue == "predict"
AwkwardValue == "a\nb\"\\"
AuditValues == {PlainValue, AwkwardValue}
AuditItems == {<<k, v>> : k \in AuditKeys, v \in AuditValues}

\* The events: empty, one item, or a plain item followed by an awkward one
\* under the other key.
AuditEvents ==
    {<<>>} \cup {<<p>> : p \in AuditItems}
           \cup {<<<<k[1], PlainValue>>, <<k[2], AwkwardValue>>>> :
                    k \in {x \in AuditKeys \X AuditKeys : x[1] # x[2]}}

DictKeys(d) == {d[i][1] : i \in DOMAIN d}

DictGet(d, k) == LET i == CHOOSE j \in DOMAIN d : d[j][1] = k IN d[i][2]

\* d[k] = v: an existing key keeps its place, a new key goes last.
DictSetItem(d, k, v) ==
    IF k \in DictKeys(d)
    THEN [i \in DOMAIN d |-> IF d[i][1] = k THEN <<k, v>> ELSE d[i]]
    ELSE Append(d, <<k, v>>)

\* Variant: no copy is made, the caller's object itself is used.
dict_alias(heap, ref) == [ref |-> ref, heap |-> heap]

\* dict(event): a new object holding the same items.
dict(heap, ref) ==
    [ref |-> "event_to_write",
     heap |-> [o \in DOMAIN heap \cup {"event_to_write"} |->
                  IF o = "event_to_write" THEN heap[ref] ELSE heap[o]]]

\* heap[ref][k] = v
SetItem(heap, ref, k, v) ==
    [o \in DOMAIN heap |-> IF o = ref THEN DictSetItem(heap[o], k, v) ELSE heap[o]]

\* datetime.now(timezone.utc).isoformat() at clock reading t.
IsoFormat(t) == "2026-02-13T10:15:0" \o ToString(t) \o "+00:00"

\* s.replace("+00:00", "Z") for a string with at most one occurrence, at its end.
ReplaceOffset(s) ==
    IF Len(s) >= 6 /\ SubSeq(s, Len(s) - 5, Len(s)) = "+00:00"
    THEN SubSeq(s, 1, Len(s) - 6) \o "Z"
    ELSE s

_utc_now_iso == ReplaceOffset(IsoFormat(clock))

\* json.dumps of a string: quoted, with quote, backslash and newline escaped.
RECURSIVE JsonEscape(_)
JsonEscape(s) ==
    IF s = "" THEN ""
    ELSE LET c == SubSeq(s, 1, 1)
             e == IF c = Quote THEN Backslash \o Quote
                  ELSE IF c = Backslash THEN Backslash \o Backslash
                  ELSE IF c = NL THEN Backslash \o "n"
                  ELSE c
         IN  e \o JsonEscape(SubSeq(s, 2, Len(s)))

JsonString(s) == Quote \o JsonEscape(s) \o Quote

RECURSIVE JsonItems(_)
JsonItems(d) ==
    IF d = <<>> THEN ""
    ELSE JsonString(d[1][1]) \o ":" \o JsonString(d[1][2])
         \o (IF Len(d) > 1 THEN "," \o JsonItems(Tail(d)) ELSE "")

\* json.dumps(d, separators=(",", ":"), ensure_ascii=False)
Dumps(d) == "{" \o JsonItems(d) \o "}"

\* Variant: the file is opened for writing, which truncates it.
FileAppend_truncating(file, data) == data

\* open("a") and f.write(data): data goes after the present content of the
\* file (an absent file is created empty).
FileAppend(file, data) == file \o data

\* write_audit_event(event) with the caller's dict held as object "event":
\* the caller's dict after the call, the dict serialised, the line, the file.
write_audit_event(event) ==
    LET heap0 == [o \in {"event"} |-> event]
        c == dict(heap0, "event")
        heap1 == SetItem(c.heap, c.ref, "timestamp", _utc_now_iso)
        line == Dumps(heap1[c.ref])
    IN  [caller_event |-> heap1["event"],
         event_to_write |-> heap1[c.ref],
         line |-> line,
         file |-> FileAppend(audit_log, line \o NL)]

\* One call of write_audit_event.
WriteAuditEvent ==
    \E event \in AuditEvents :
        /\ Len(audit_calls) < MaxWrites
        /\ LET r == write_audit_event(event)
           IN  /\ audit_log' = r.file
               /\ audit_calls' = Append(audit_calls,
                      [event |-> event,
                       now |-> clock,
                       before |-> audit_log,
                       caller_event |-> r.caller_event,
                       event_to_write |-> r.event_to_write])
        /\ UNCHANGED <<app_mw, app_rl, last_req, built>>

\* The positions of the line ends in a file and the lines they end.
LineEnds(file) == {i \in 1..Len(file) : SubSeq(file, i, i) = NL}

LineEnd(file, k) ==
    CHOOSE p \in LineEnds(file) : Cardinality({q \in LineEnds(file) : q <= p}) = k

Lines(file) ==
    [k \in 1..Cardinality(LineEnds(file)) |->
        SubSeq(file, (IF k = 1 THEN 0 ELSE LineEnd(file, k - 1)) + 1,
               LineEnd(file, k) - 1)]

(***************************************************************************)
(* app/middleware.py: RequestIdMiddleware; app/schemas.py: FraudResponse;  *)
(* app/main.py and app/routes/predict.py: the /v1/predict route.           *)
(*                                                                         *)
(* Scores are in hundredths (0.50 is 50).  A route dependency that raises  *)
(* HTTPException ends the request before the handler runs; an exception    *)
(* raised inside the handler propagates through call_next.                 *)
(***************************************************************************)
RequestIdMinLength == 8
RequestIdMaxLength == 128
ModelVersionMinLength == 1
ModelVersionMaxLength == 64
ScoreMin == 0
ScoreMax == 100
PlaceholderScore == 50
BlockThreshold == 80
ReviewThreshold == 50

RECURSIVE Repeat(_, _)
Repeat(c, n) ==
    IF n = 0 THEN ""
    ELSE IF n % 2 = 0 THEN LET half == Repeat(c, n \div 2) IN half \o half
    ELSE c \o Repeat(c, n - 1)

\* str(uuid.uuid4()): some canonical 36-character UUID.
UUIDs == {"3f2b8c1e-9d4a-4c6b-8e1f-0a1b2c3d4e5f",
          "7c9e6679-7425-40de-944b-e07fc1f90ae7"}

\* X-Request-Id header values of the requests.
RequestIdHeaders ==
    {None, Some(""), Some("   "), Some("abc-123"), Some("abc-12345"),
     Some(" abc-12345 "), Some(Repeat("x", RequestIdMaxLength)),
     Some(Repeat("x", RequestIdMaxLength + 1))}

\* X-API-Key header values of the requests (tests/test_predict.py).
AppKeys ==
    {None, Some(""), Some("wrong-key"), Some("admin-secret-123"),
     Some("service-secret-123")}

\* tests/conftest.py sets both keys; a deployment may set none.
AppEnvirons ==
    {<<>>,
     [n \in EnvNames |->
        IF n = "API_KEY_ADMIN" THEN "admin-secret-123" ELSE "service-secret-123"]}

Routes == {"main", "router"}

\* request.headers.get("X-Request-Id", "")
HeaderGet(hdr, default) == IF IsNone(hdr) THEN default ELSE Val(hdr)

\* RequestIdMiddleware.dispatch, lines 39-44: the id stored on request.state.
AssignRequestId(hdr, uuid) ==
    LET incoming_request_id == strip(HeaderGet(hdr, ""))
    IN  IF incoming_request_id # "" THEN incoming_request_id ELSE uuid

\* Variant: the score field without its range constraint.
FraudResponseValid_unbounded_score(request_id, model_version, score) ==
    /\ Len(request_id) >= RequestIdMinLength
    /\ Len(request_id) <= RequestIdMaxLength
    /\ Len(model_version) >= ModelVersionMinLength
    /\ Len(model_version) <= ModelVersionMaxLength

\* FraudResponse field validation.
FraudResponseValid(request_id, model_version, score) ==
    /\ Len(request_id) >= RequestIdMinLength
    /\ Len(request_id) <= RequestIdMaxLength
    /\ Len(model_version) >= ModelVersionMinLength
    /\ Len(model_version) <= ModelVersionMaxLength
    /\ score >= ScoreMin
    /\ score <= ScoreMax

Decision(score) ==
    IF score >= BlockThreshold THEN "block"
    ELSE IF score >= ReviewThreshold THEN "review"
    ELSE "allow"

NoBody == <<>>

\* Lines 97-110 of the handler: the decision policy and the construction of
\* the FraudResponse, which raises when a field fails validation.
BuildResponse(request_id, score) ==
    LET decision == Decision(score)
        model_version == "v1-placeholder"
    IN  IF FraudResponseValid(request_id, model_version, score)
        THEN [raised |-> FALSE,
              body |-> [request_id |-> request_id, model_version |-> model_version,
                        score |-> score, decision |-> decision]]
        ELSE [raised |-> TRUE, body |-> NoBody]

\* The handler body of /v1/predict (identical in main.py and routes/predict.py):
\* state_id is request.state.request_id (None when no middleware set it).
PredictHandler(state_id, uuid) ==
    LET request_id == IF Truthy(state_id) THEN Val(state_id) ELSE uuid
        score == PlaceholderScore
    IN  BuildResponse(request_id, score)

\* Scores a scoring collaborator may hand to the response construction.
ScoreInputs == (ScoreMin - ScoreSlack)..(ScoreMax + ScoreSlack)

NoBuilt ==
    [via |-> "none", request_id |-> "", score |-> 0, raised |-> FALSE,
     body |-> NoBody]

\* The response construction applied to a score of the collaborator.
Construct ==
    \E uuid \in UUIDs, score \in ScoreInputs :
        LET r == BuildResponse(uuid, score)
        IN  /\ built' = [via |-> "construct", request_id |-> uuid, score |-> score,
                         raised |-> r.raised, body |-> r.body]
            /\ UNCHANGED <<audit_log, audit_calls, app_mw, app_rl, last_req>>

\* The handler as written, with its placeholder score.
Handle ==
    \E state_id \in {None} \cup {Some(u) : u \in UUIDs}, uuid \in UUIDs :
        LET r == PredictHandler(state_id, uuid)
        IN  /\ built' = [via |-> "handler",
                         request_id |-> IF Truthy(state_id) THEN Val(state_id) ELSE uuid,
                         score |-> PlaceholderScore,
                         raised |-> r.raised, body |-> r.body]
            /\ UNCHANGED <<audit_log, audit_calls, app_mw, app_rl, last_req>>

\* The route: the require_api_key dependency, request validation, the handler.
\* Neither route definition calls load_active_model or write_audit_event.
RouteCall(route, key, payload_valid, state_id, uuid) ==
    LET dep == require_api_key(key)
    IN  IF dep.status # 200
        THEN [status |-> dep.status, detail |-> dep.detail, handler_ran |-> FALSE,
              raised |-> FALSE, body |-> NoBody]
        ELSE IF ~payload_valid
        THEN [status |-> 422, detail |-> "validation", handler_ran |-> FALSE,
              raised |-> FALSE, body |-> NoBody]
        ELSE LET h == PredictHandler(state_id, uuid)
             IN  [status |-> IF h.raised THEN 500 ELSE 200,
                  detail |-> IF h.raised THEN "Internal Server Error" ELSE "",
                  handler_ran |-> TRUE, raised |-> h.raised, body |-> h.body]

\* What ran in the route for a request: the dependency, then the handler.
RouteSteps(r) ==
    <<"require_api_key">> \o (IF r.handler_ran THEN <<"handler">> ELSE <<>>)

NoRequest ==
    [route |-> "none", key |-> None, rid |-> None, payload_valid |-> FALSE,
     state_id |-> None, status |-> 0, detail |-> "", handler_ran |-> FALSE,
     raised |-> FALSE, body |-> NoBody, header_id |-> None, loads |-> <<>>,
     audit_before |-> 0, steps |-> <<>>]

\* One request to POST /v1/predict, through RequestIdMiddleware when installed.
\* loads lists the load_active_model calls made while serving it.
PredictRequest ==
    \E route \in Routes, key \in AppKeys, rid \in RequestIdHeaders,
       payload_valid \in BOOLEAN, mw_uuid \in UUIDs, h_uuid \in UUIDs :
        LET state_id == IF app_mw THEN Some(AssignRequestId(rid, mw_uuid)) ELSE None
            r == RouteCall(route, key, payload_valid, state_id, h_uuid)
        IN  /\ last_req' =
                   [route |-> route, key |-> key, rid |-> rid,
                    payload_valid |-> payload_valid, state_id |-> state_id,
                    status |-> r.status, detail |-> r.detail,
                    handler_ran |-> r.handler_ran, raised |-> r.raised,
                    body |-> r.body,
                    header_id |-> IF app_mw /\ ~r.raised THEN state_id ELSE None,
                    loads |-> <<>>,
                    audit_before |-> Len(Lines(audit_log)),
                    steps |-> (IF app_mw THEN <<"request_id">> ELSE <<>>)
                                \o RouteSteps(r)]
            /\ UNCHANGED <<audit_log, audit_calls, app_mw, app_rl, built>>

\* The requests sent through the stack of middlewares.
StackKeys == {None, Some("wrong-key"), Some("admin-secret-123")}
StackRequestIds == {None, Some("abc-12345")}

\* The response of SimpleRateLimitMiddleware to a request over the limit.
RateLimited ==
    [status |-> 429, detail |-> "Rate limit exceeded.", handler_ran |-> FALSE,
     raised |-> FALSE, body |-> NoBody]

\* One request to POST /v1/predict through the installed middlewares and the
\* route.  A middleware runs before what it wraps: RequestIdMiddleware
\* assigns the id and SimpleRateLimitMiddleware stores the counter before
\* they await call_next, and the route's require_api_key dependency runs
\* inside both.  steps lists what ran for the request, in order.
StackRequest ==
    \E route \in Routes, key \in StackKeys, rid \in StackRequestIds,
       payload_valid \in BOOLEAN, mw_uuid \in UUIDs, h_uuid \in UUIDs :
        /\ Len(rl_log) < MaxCalls
        /\ IF app_rl = "none"
           THEN UNCHANGED <<rl_max, rl_window, rl_state, clock, rl_log, tasks>>
           ELSE Dispatch(key)
        /\ LET limited == app_rl # "none" /\ ~DispatchRecord(key).forwarded
               assigned == app_mw /\ (app_rl = "outside" => ~limited)
               state_id == IF assigned THEN Some(AssignRequestId(rid, mw_uuid)) ELSE None
               r == IF limited THEN RateLimited
                    ELSE RouteCall(route, key, payload_valid, state_id, h_uuid)
               id_step == IF assigned THEN <<"request_id">> ELSE <<>>
               rl_step == IF app_rl = "none" THEN <<>> ELSE <<"rate_limit">>
               route_steps == IF limited THEN <<>> ELSE RouteSteps(r)
           IN  last_req' =
                   [route |-> route, key |-> key, rid |-> rid,
                    payload_valid |-> payload_valid, state_id |-> state_id,
                    status |-> r.status, detail |-> r.detail,
                    handler_ran |-> r.handler_ran, raised |-> r.raised,
                    body |-> r.body,
                    header_id |-> IF assigned /\ ~r.raised THEN state_id ELSE None,
                    loads |-> <<>>,
                    audit_before |-> Len(Lines(audit_log)),
                    steps |-> (IF app_rl = "inside"
                               THEN id_step \o rl_step
                               ELSE rl_step \o id_step) \o route_steps]
        /\ UNCHANGED <<audit_log, audit_calls, app_mw, app_rl, built>>

(***************************************************************************)
(* Specifications.                                                         *)
(***************************************************************************)
IdleAuthEnviron ==
    [n \in EnvNames |-> IF n = "API_KEY_ADMIN" THEN "a" ELSE "aa"]

NextAuth ==
    \/ Authenticate /\ UNCHANGED <<rateVars, loaderVars, appVars>>
    \/ RequireApiKey /\ UNCHANGED <<rateVars, loaderVars, appVars>>

InitSpecAuth ==
    /\ environ \in Environs
    /\ auth_call = NoCall
    /\ rl_max = 1 /\ rl_window = 1 /\ rl_state = <<>> /\ clock = 0 /\ rl_log = <<>> /\ tasks = <<>>
    /\ fs_manifest = None /\ fs_files = <<>> /\ load_log = <<>>
    /\ audit_log = "" /\ audit_calls = <<>> /\ app_mw = FALSE /\ app_rl = "none" /\ last_req = NoRequest /\ built = NoBuilt

SpecAuth == InitSpecAuth /\ [][NextAuth]_vars

NextRate ==
    \/ RateDispatch /\ UNCHANGED <<authVars, loaderVars, appVars>>
    \/ Tick /\ UNCHANGED <<authVars, loaderVars, appVars>>

InitSpecRate ==
    /\ environ = IdleAuthEnviron /\ auth_call = NoCall
    /\ rl_max \in 1..MaxLimit
    /\ rl_window \in 1..MaxWindow
    /\ rl_state = <<>>
    /\ clock = 0
    /\ rl_log = <<>> /\ tasks = <<>>
    /\ fs_manifest = None /\ fs_files = <<>> /\ load_log = <<>>
    /\ audit_log = "" /\ audit_calls = <<>> /\ app_mw = FALSE /\ app_rl = "none" /\ last_req = NoRequest /\ built = NoBuilt

SpecRate == InitSpecRate /\ [][NextRate]_vars

NextBurst ==
    \/ BurstDispatch /\ UNCHANGED <<authVars, loaderVars, appVars>>
    \/ Tick /\ UNCHANGED <<authVars, loaderVars, appVars>>

InitSpecBurst ==
    /\ environ = IdleAuthEnviron /\ auth_call = NoCall
    /\ rl_max \in 1..MaxLimit
    /\ rl_window \in 1..MaxWindow
    /\ rl_state = <<>>
    /\ clock = 0
    /\ rl_log = <<>> /\ tasks = <<>>
    /\ fs_manifest = None /\ fs_files = <<>> /\ load_log = <<>>
    /\ audit_log = "" /\ audit_calls = <<>> /\ app_mw = FALSE /\ app_rl = "none" /\ last_req = NoRequest
    /\ built = NoBuilt

SpecBurst == InitSpecBurst /\ [][NextBurst]_vars

NextConc == ResumeSome /\ UNCHANGED <<authVars, loaderVars, appVars>>

InitSpecConc ==
    /\ environ = IdleAuthEnviron /\ auth_call = NoCall
    /\ rl_max \in 1..MaxLimit
    /\ rl_window \in 1..MaxWindow
    /\ rl_state = <<>>
    /\ clock = 0
    /\ rl_log = <<>>
    /\ tasks \in {[t \in TaskIds |-> NewTask(h[t])] : h \in [TaskIds -> BurstHeaders]}
    /\ fs_manifest = None /\ fs_files = <<>> /\ load_log = <<>>
    /\ audit_log = "" /\ audit_calls = <<>>
    /\ app_mw = FALSE /\ app_rl = "none" /\ last_req = NoRequest /\ built = NoBuilt

SpecConc == InitSpecConc /\ [][NextConc]_vars

NextLoad == Load /\ UNCHANGED <<authVars, rateVars, appVars>>

InitSpecLoad ==
    /\ environ = IdleAuthEnviron /\ auth_call = NoCall
    /\ rl_max = 1 /\ rl_window = 1 /\ rl_state = <<>> /\ clock = 0 /\ rl_log = <<>> /\ tasks = <<>>
    /\ fs_manifest \in {None} \cup {Some(d) : d \in ManifestDocs}
    /\ fs_files \in FileStates
    /\ load_log = <<>>
    /\ audit_log = "" /\ audit_calls = <<>> /\ app_mw = FALSE /\ app_rl = "none" /\ last_req = NoRequest /\ built = NoBuilt

SpecLoad == InitSpecLoad /\ [][NextLoad]_vars

NextLoadSeq ==
    \/ Load /\ UNCHANGED <<authVars, rateVars, appVars>>
    \/ WriteArtifact /\ UNCHANGED <<authVars, rateVars, appVars>>
    \/ RemoveArtifact /\ UNCHANGED <<authVars, rateVars, appVars>>
    \/ WriteManifest /\ UNCHANGED <<authVars, rateVars, appVars>>
    \/ RemoveManifest /\ UNCHANGED <<authVars, rateVars, appVars>>

InitSpecLoadSeq ==
    /\ environ = IdleAuthEnviron /\ auth_call = NoCall
    /\ rl_max = 1 /\ rl_window = 1 /\ rl_state = <<>> /\ clock = 0 /\ rl_log = <<>> /\ tasks = <<>>
    /\ fs_manifest \in {None} \cup {Some(d) : d \in ReleaseDocs}
    /\ fs_files \in FileStates
    /\ load_log = <<>>
    /\ audit_log = "" /\ audit_calls = <<>> /\ app_mw = FALSE /\ app_rl = "none" /\ last_req = NoRequest /\ built = NoBuilt

SpecLoadSeq == InitSpecLoadSeq /\ [][NextLoadSeq]_vars

NextApp == PredictRequest /\ UNCHANGED <<authVars, rateVars, loaderVars>>

InitSpecApp ==
    /\ environ \in AppEnvirons
    /\ auth_call = NoCall
    /\ rl_max = 1 /\ rl_window = 1 /\ rl_state = <<>> /\ clock = 0 /\ rl_log = <<>> /\ tasks = <<>>
    /\ fs_manifest \in {None, Some(ReleaseDoc(1, _sha256_file(1)))}
    /\ fs_files = [p \in {ArtifactPath} |-> 1]
    /\ load_log = <<>>
    /\ audit_log = "" /\ audit_calls = <<>>
    /\ app_mw \in BOOLEAN /\ app_rl = "none"
    /\ last_req = NoRequest /\ built = NoBuilt

SpecApp == InitSpecApp /\ [][NextApp]_vars

NextScore ==
    \/ Construct /\ UNCHANGED <<authVars, rateVars, loaderVars>>
    \/ Handle /\ UNCHANGED <<authVars, rateVars, loaderVars>>

InitSpecScore ==
    /\ environ = IdleAuthEnviron /\ auth_call = NoCall
    /\ rl_max = 1 /\ rl_window = 1 /\ rl_state = <<>> /\ clock = 0 /\ rl_log = <<>> /\ tasks = <<>>
    /\ fs_manifest = None /\ fs_files = <<>> /\ load_log = <<>>
    /\ audit_log = "" /\ audit_calls = <<>> /\ app_mw = FALSE /\ app_rl = "none" /\ last_req = NoRequest
    /\ built = NoBuilt

SpecScore == InitSpecScore /\ [][NextScore]_vars

NextStack == StackRequest /\ UNCHANGED <<authVars, loaderVars>>

InitSpecStack ==
    /\ environ \in AppEnvirons
    /\ auth_call = NoCall
    /\ rl_max \in 1..MaxLimit
    /\ rl_window = 1 /\ rl_state = <<>> /\ clock = 0 /\ rl_log = <<>> /\ tasks = <<>>
    /\ fs_manifest = None /\ fs_files = <<>> /\ load_log = <<>>
    /\ audit_log = "" /\ audit_calls = <<>>
    /\ app_mw \in BOOLEAN
    /\ app_rl \in IF app_mw THEN {"none", "outside", "inside"} ELSE {"none", "outside"}
    /\ last_req = NoRequest /\ built = NoBuilt

SpecStack == InitSpecStack /\ [][NextStack]_vars

NextAudit ==
    \/ WriteAuditEvent /\ UNCHANGED <<authVars, rateVars, loaderVars>>
    \/ Tick /\ UNCHANGED <<authVars, loaderVars, appVars>>

InitSpecAudit ==
    /\ environ = IdleAuthEnviron /\ auth_call = NoCall
    /\ rl_max = 1 /\ rl_window = 1 /\ rl_state = <<>> /\ clock = 0 /\ rl_log = <<>> /\ tasks = <<>>
    /\ fs_manifest = None /\ fs_files = <<>> /\ load_log = <<>>
    /\ audit_log = "" /\ audit_calls = <<>>
    /\ app_mw = FALSE /\ app_rl = "none" /\ last_req = NoRequest /\ built = NoBuilt

SpecAudit == InitSpecAudit /\ [][NextAudit]_vars


(***************************************************************************)
(* Properties.                                                             *)
(***************************************************************************)

\* The entries of rl_log up to i that belong to the window entry i falls in:
\* those of the same identity since its last window start (the identity's
\* first request, or a request that found the window expired).
WindowStartIndex(i) ==
    CHOOSE j \in 1..i :
        /\ rl_log[j].identity = rl_log[i].identity
        /\ rl_log[j].fresh \/ rl_log[j].reset
        /\ \A k \in (j + 1)..i :
              rl_log[k].identity = rl_log[i].identity => ~rl_log[k].reset

CallIndexInWindow(i) ==
    Cardinality({j \in WindowStartIndex(i)..i :
                    rl_log[j].identity = rl_log[i].identity})

\* C1: among the dispatch calls of one identity that fall in one window, calls
\* 1..max_requests are forwarded to the downstream handler and every later call
\* is answered 429 without being forwarded, until a call finds the window
\* expired and starts the next one.
C1_AdmitUpToLimit ==
    \A i \in 1..Len(rl_log) :
        IF CallIndexInWindow(i) <= rl_max
        THEN rl_log[i].forwarded /\ rl_log[i].status = 200
        ELSE ~rl_log[i].forwarded /\ rl_log[i].status = 429

\* An identity is admitted for call max_requests, rejected for the call after
\* it, and admitted again once the window has rolled over.
C1_Witness ==
    \E i, j, k \in 1..Len(rl_log) :
        /\ i < j /\ j < k
        /\ rl_log[i].identity = rl_log[j].identity
        /\ rl_log[j].identity = rl_log[k].identity
        /\ CallIndexInWindow(i) = rl_max /\ rl_log[i].forwarded
        /\ CallIndexInWindow(j) = rl_max + 1 /\ rl_log[j].status = 429
        /\ rl_log[k].reset /\ rl_log[k].forwarded

\* The configured value of a role: the variable is set and not empty.
Configured(name) == name \in DOMAIN environ /\ environ[name] # ""

EqualsConfigured(x, name) ==
    ~IsNone(x) /\ Configured(name) /\ Val(x) = environ[name]

\* C2 as stated: a credential equal to no configured value is refused; one
\* equal to a configured value gets the identity of that role.
C2_ExactMatchAsStated ==
    auth_call.fn # "none" =>
        LET x == auth_call.arg
            r == auth_call.result
            eqAdmin == EqualsConfigured(x, "API_KEY_ADMIN")
            eqService == EqualsConfigured(x, "API_KEY_SERVICE")
        IN  /\ (~eqAdmin /\ ~eqService) => r.status \in {401, 403}
            /\ (auth_call.fn = "authenticate" /\ eqAdmin) =>
                  (r.status = 200 /\ r.role = "admin")
            /\ (auth_call.fn = "authenticate" /\ eqService /\ ~eqAdmin) =>
                  (r.status = 200 /\ r.role = "service")
            /\ (auth_call.fn = "require_api_key" /\ (eqAdmin \/ eqService)) =>
                  r.status = 200

\* C2 (amended): authenticate compares the credential and the configured values
\* after trimming surrounding whitespace: a credential whose trimmed value is
\* empty or equals no trimmed configured value is refused with 401 or 403, one
\* equal to the trimmed admin value gets the admin identity (also when both
\* roles share the value), one equal only to the trimmed service value gets
\* the service identity.  require_api_key compares verbatim: it lets through
\* exactly the non-empty credentials equal to the value of API_KEY_ADMIN or
\* API_KEY_SERVICE and answers 403 otherwise.
C2_MatchAfterTrimming ==
    auth_call.fn # "none" =>
        LET x == auth_call.arg
            r == auth_call.result
            p == IF IsNone(x) THEN "" ELSE strip(Val(x))
            matchAdmin == p # "" /\ p = strip(getenv("API_KEY_ADMIN", ""))
            matchService == p # "" /\ p = strip(getenv("API_KEY_SERVICE", ""))
            verbatim == /\ ~IsNone(x)
                        /\ Val(x) # ""
                        /\ \E n \in EnvNames : Val(x) = getenv(n, "")
        IN  IF auth_call.fn = "authenticate"
            THEN /\ (~matchAdmin /\ ~matchService) => r.status \in {401, 403}
                 /\ matchAdmin =>
                       (r.status = 200 /\ r.role = "admin" /\ r.key_id = "admin-key")
                 /\ (matchService /\ ~matchAdmin) =>
                       (r.status = 200 /\ r.role = "service"
                           /\ r.key_id = "service-key")
            ELSE r.status = (IF verbatim THEN 200 ELSE 403)

\* authenticate accepts a padded credential against a padded configured value,
\* both roles sharing the trimmed value.
C2_Witness ==
    /\ auth_call.fn = "authenticate"
    /\ auth_call.arg = Some(" a")
    /\ getenv("API_KEY_ADMIN", "") = "a "
    /\ getenv("API_KEY_SERVICE", "") = "a"
    /\ auth_call.result.status = 200
    /\ auth_call.result.role = "admin"

\* C3: when neither API_KEY_ADMIN nor API_KEY_SERVICE is configured (unset or
\* empty), authenticate and require_api_key refuse every credential, the empty
\* string and an absent header included.
C3_FailClosedUnconfigured ==
    (~Configured("API_KEY_ADMIN") /\ ~Configured("API_KEY_SERVICE")
        /\ auth_call.fn # "none")
    => /\ auth_call.result.status \in {401, 403}
       /\ auth_call.result.role = ""

\* require_api_key refuses the empty credential while both variables are unset
\* or empty.
C3_Witness ==
    /\ ~Configured("API_KEY_ADMIN") /\ ~Configured("API_KEY_SERVICE")
    /\ "API_KEY_ADMIN" \in DOMAIN environ
    /\ auth_call.fn = "require_api_key"
    /\ auth_call.arg = Some("")
    /\ auth_call.result.status = 403

\* A credential the route must refuse: absent, or equal to no configured value.
InvalidCredential(x) ==
    ~EqualsConfigured(x, "API_KEY_ADMIN") /\ ~EqualsConfigured(x, "API_KEY_SERVICE")

\* C4: a /v1/predict request with an invalid credential is answered 403 before
\* the handler runs, on both route definitions: no score is produced, no
\* artifact load is attempted and no ModelHandle is constructed for it.
C4_InvalidKeyRejectedBeforeHandler ==
    (last_req.route # "none" /\ InvalidCredential(last_req.key))
    => /\ last_req.status = 403
       /\ ~last_req.handler_ran
       /\ last_req.body = NoBody
       /\ last_req.loads = <<>>
       /\ load_log = <<>>

\* "wrong-key" is refused on the router's route while both keys are configured
\* and the payload is valid.
C4_Witness ==
    /\ last_req.route = "router"
    /\ last_req.key = Some("wrong-key")
    /\ last_req.payload_valid
    /\ Configured("API_KEY_ADMIN")
    /\ last_req.status = 403
    /\ ~last_req.handler_ran

\* The manifest is well-formed: an object whose active_model is a dict holding
\* version, path and sha256 as strings that are not empty after trimming.
WellFormed(manifest) ==
    /\ ~IsNone(manifest)
    /\ Val(manifest).kind = "object"
    /\ Val(manifest).active = "dict"
    /\ \A k \in FieldNames :
          /\ k \in DOMAIN Val(manifest).fields
          /\ Val(manifest).fields[k].t = "str"
          /\ strip(Val(manifest).fields[k].v) # ""

DeclaredPath(manifest) == strip(Val(manifest).fields["path"].v)
DeclaredDigest(manifest) == strip(Val(manifest).fields["sha256"].v)

\* C5: load_active_model returns a ModelHandle if and only if the manifest
\* exists and is well-formed, the artifact file exists and its SHA-256 equals
\* the declared digest compared case-insensitively; otherwise it raises.
C5_HandleIffVerified ==
    \A i \in 1..Len(load_log) :
        load_log[i].result.ok <=>
            /\ WellFormed(load_log[i].manifest)
            /\ DeclaredPath(load_log[i].manifest) \in DOMAIN load_log[i].files
            /\ lower(DeclaredDigest(load_log[i].manifest)) =
                   lower(_sha256_file(
                       load_log[i].files[DeclaredPath(load_log[i].manifest)]))

\* C6: load_active_model keeps no state between calls: two calls that find the
\* same manifest and artifact have the same outcome, and after a successful
\* load a call that finds the same manifest and a changed artifact content
\* fails with the checksum-mismatch error.
C6_LoadIsStateless ==
    /\ \A i, j \in 1..Len(load_log) :
          (load_log[i].manifest = load_log[j].manifest
              /\ load_log[i].files = load_log[j].files)
          => load_log[i].result = load_log[j].result
    /\ \A i \in 1..(Len(load_log) - 1) :
          (/\ load_log[i].result.ok
           /\ load_log[i + 1].manifest = load_log[i].manifest
           /\ ArtifactPath \in DOMAIN load_log[i + 1].files
           /\ load_log[i + 1].files # load_log[i].files)
          => (~load_log[i + 1].result.ok
                 /\ load_log[i + 1].result.error = "checksum_mismatch")

\* A successful load is followed by a load of the changed artifact that fails
\* with the checksum mismatch.
C6_Witness ==
    \E i \in 1..(Len(load_log) - 1) :
        /\ load_log[i].result.ok
        /\ load_log[i + 1].manifest = load_log[i].manifest
        /\ load_log[i + 1].files # load_log[i].files
        /\ load_log[i + 1].result.error = "checksum_mismatch"

\* C7: a 200 response of /v1/predict is produced only after the active artifact
\* was loaded and checksum-verified in that request and reports that artifact's
\* version; a request whose artifact load fails returns no score.
C7_ScoredOnlyAfterVerifiedLoad ==
    last_req.status = 200 =>
        /\ LoadFrom(fs_manifest, fs_files).ok
        /\ Len(last_req.loads) = 1
        /\ last_req.loads[1].ok
        /\ last_req.body.model_version = last_req.loads[1].version

\* sub occurs in s.
Contains(s, sub) ==
    \E i \in 1..(Len(s) - Len(sub) + 1) : SubSeq(s, i, i + Len(sub) - 1) = sub

\* C8: every successful /v1/predict call appends exactly one audit record, whose
\* correlation_id is the request_id of the response.
C8_OneAuditRecordPerSuccess ==
    last_req.status = 200 =>
        LET lines == Lines(audit_log)
        IN  /\ Len(lines) = last_req.audit_before + 1
            /\ Contains(lines[Len(lines)],
                        JsonString("correlation_id") \o ":"
                            \o JsonString(last_req.body.request_id))

\* C9: with RequestIdMiddleware installed, an inbound X-Request-Id that is not
\* empty after trimming is the assigned id (read here up to its surrounding
\* whitespace), otherwise a generated non-empty id is assigned; the assigned id
\* is stored on the request and echoed in the response's X-Request-Id header.
C9_RequestIdPropagated ==
    (app_mw /\ last_req.route # "none") =>
        /\ ~IsNone(last_req.state_id)
        /\ IF ~IsNone(last_req.rid) /\ strip(Val(last_req.rid)) # ""
           THEN Val(last_req.state_id) = strip(Val(last_req.rid))
           ELSE Val(last_req.state_id) \in UUIDs
        /\ last_req.header_id = last_req.state_id

\* C10: the id assigned to a request has 8 to 128 characters, so the handler
\* never fails building the FraudResponse.
C10_RequestIdFitsSchema ==
    /\ (app_mw /\ last_req.route # "none") =>
          /\ Len(Val(last_req.state_id)) >= RequestIdMinLength
          /\ Len(Val(last_req.state_id)) <= RequestIdMaxLength
    /\ last_req.handler_ran => ~last_req.raised

\* The decision the score policy prescribes for a score.
PolicyDecision(score) ==
    CASE score >= BlockThreshold -> "block"
      [] score < BlockThreshold /\ score >= ReviewThreshold -> "review"
      [] OTHER -> "allow"

\* C11: a response that is built carries the score it was built from, in the
\* range 0.0..1.0, with the decision the score policy prescribes for it; an
\* out-of-range score makes the construction raise and yields no response.
C11_ScoreInRangeAndDecisionMatches ==
    built.via # "none" =>
        /\ ~built.raised =>
              /\ built.body.score = built.score
              /\ built.body.score >= ScoreMin /\ built.body.score <= ScoreMax
              /\ built.body.decision \in {"allow", "review", "block"}
              /\ built.body.decision = PolicyDecision(built.score)
        /\ (built.score < ScoreMin \/ built.score > ScoreMax) =>
              built.raised /\ built.body = NoBody
        /\ built.via = "handler" => ~built.raised /\ built.body.decision = "review"

\* A score just above the range was handed to the construction and rejected.
C11_Witness ==
    /\ built.via = "construct"
    /\ built.score = ScoreMax + 1
    /\ built.raised

\* What the called function answers to an absent credential.
MissingCredentialAnswer(fn) ==
    IF fn = "authenticate" THEN authenticate(None) ELSE require_api_key(None)

\* C12: every refusal of authenticate or require_api_key (credential missing,
\* credential invalid, no credential configured) carries the status code and
\* the detail the same function gives for a missing credential.
C12_RefusalsIndistinguishable ==
    (auth_call.fn # "none" /\ auth_call.result.status # 200)
    => /\ auth_call.result.status = MissingCredentialAnswer(auth_call.fn).status
       /\ auth_call.result.detail = MissingCredentialAnswer(auth_call.fn).detail

\* The credential is absent, empty, or empty after trimming.
BlankCredential(x) == IsNone(x) \/ strip(Val(x)) = ""

\* C20: an absent, empty or whitespace-only credential is refused by
\* authenticate and by require_api_key under every configuration of
\* API_KEY_ADMIN and API_KEY_SERVICE.
C20_BlankCredentialNeverAccepted ==
    (auth_call.fn # "none" /\ BlankCredential(auth_call.arg))
    => auth_call.result.status \in {401, 403}

\* The dispatch call of the same identity that precedes call i (0 when i is
\* the identity's first call).
PrevIndex(i) ==
    LET earlier == {j \in 1..(i - 1) : rl_log[j].identity = rl_log[i].identity}
    IN  IF earlier = {} THEN 0 ELSE CHOOSE j \in earlier : \A k \in earlier : k <= j

\* The calls up to i of the identity of call i that were counted in the window
\* call i was counted in (windows of one identity have distinct start times).
SameWindowCalls(i) ==
    {j \in 1..i : /\ rl_log[j].identity = rl_log[i].identity
                   /\ rl_log[j].stored[1] = rl_log[i].stored[1]}

\* C17: every dispatch call, admitted or rejected, raises the stored count of
\* its identity by one: the k-th call of an identity inside one window stores
\* count k, a call that follows a rejected call in the same window stores one
\* more than the rejected call did, and the limiter's state holds what the
\* identity's last call stored.
C17_RejectedAttemptsCount ==
    \A i \in 1..Len(rl_log) :
        LET j == PrevIndex(i)
        IN  /\ rl_log[i].stored[2] = Cardinality(SameWindowCalls(i))
            /\ (j # 0 /\ rl_log[i].now - rl_log[j].stored[1] <= rl_window)
                  => /\ rl_log[i].stored[1] = rl_log[j].stored[1]
                     /\ rl_log[i].stored[2] = rl_log[j].stored[2] + 1
            /\ (\A k \in (i + 1)..Len(rl_log) :
                    rl_log[k].identity # rl_log[i].identity)
                  => rl_state[rl_log[i].identity] = rl_log[i].stored

\* A rejected call is followed, in the same window, by another rejected call
\* whose stored count is above the limit by two.
C17_Witness ==
    \E i \in 1..Len(rl_log) :
        /\ PrevIndex(i) # 0
        /\ rl_log[PrevIndex(i)].status = 429
        /\ rl_log[i].status = 429
        /\ rl_log[i].stored[1] = rl_log[PrevIndex(i)].stored[1]
        /\ rl_log[i].stored[2] = rl_max + 2

\* C18: a call that follows an earlier call of its identity starts a new
\* window exactly when its time exceeds the stored window start by strictly
\* more than window_seconds; it then stores its own time as window start and
\* count 1, and otherwise keeps the window start and adds one to the count.
\* An identity's first call stores its own time and count 1.
C18_ResetIffStrictlyExpired ==
    \A i \in 1..Len(rl_log) :
        LET j == PrevIndex(i)
        IN  IF j = 0
            THEN rl_log[i].stored = <<rl_log[i].now, 1>>
            ELSE IF rl_log[i].now - rl_log[j].stored[1] > rl_window
            THEN rl_log[i].stored = <<rl_log[i].now, 1>>
            ELSE rl_log[i].stored = <<rl_log[j].stored[1], rl_log[j].stored[2] + 1>>

\* A call arriving exactly window_seconds after the window start is counted
\* in the old window, and a later call of the identity starts a new window.
C18_Witness ==
    \E i, k \in 1..Len(rl_log) :
        /\ PrevIndex(i) # 0 /\ PrevIndex(k) = i
        /\ rl_log[i].now - rl_log[PrevIndex(i)].stored[1] = rl_window
        /\ rl_log[i].stored = <<rl_log[PrevIndex(i)].stored[1], 2>>
        /\ rl_log[k].stored = <<rl_log[k].now, 1>>

\* The calls of an identity forwarded at a time in [t, t + window_seconds].
AdmittedIn(identity, t) ==
    {i \in 1..Len(rl_log) : /\ rl_log[i].identity = identity
                             /\ rl_log[i].forwarded
                             /\ rl_log[i].now >= t
                             /\ rl_log[i].now <= t + rl_window}

\* C19: for every identity and every time interval of length window_seconds,
\* at most 2 * max_requests calls of the identity are forwarded at a time
\* inside the interval.
C19_BurstBound ==
    \A t \in 0..MaxTime :
        \A i \in 1..Len(rl_log) :
            Cardinality(AdmittedIn(rl_log[i].identity, t)) <= 2 * rl_max

\* A burst at a window boundary: inside one interval of length window_seconds
\* more calls of an identity are forwarded than max_requests, the last call of
\* one window and the first calls of the next.
C19_Witness ==
    \E t \in 0..MaxTime :
        \E i \in 1..Len(rl_log) :
            /\ Cardinality(AdmittedIn(rl_log[i].identity, t)) > rl_max
            /\ \E a, b \in AdmittedIn(rl_log[i].identity, t) :
                   rl_log[a].stored[1] # rl_log[b].stored[1]

\* The file made of the given lines, each ended by a newline.
RECURSIVE JoinLines(_)
JoinLines(lines) ==
    IF lines = <<>> THEN "" ELSE Head(lines) \o NL \o JoinLines(Tail(lines))

\* The record call i has to leave in the log: the fields of its event with
\* the timestamp of the call.
ExpectedRecord(i) ==
    DictSetItem(audit_calls[i].event, "timestamp",
                ReplaceOffset(IsoFormat(audit_calls[i].now)))

\* C14: after any sequence of write_audit_event calls the file consists of
\* one newline-terminated line per call, in call order, line i being the
\* serialised record of call i; and every call found in the file exactly the
\* lines of the calls before it, so no call changes or removes an earlier
\* record.
C14_AppendOnlyOneLinePerCall ==
    LET lines == Lines(audit_log)
    IN  /\ audit_log = JoinLines(lines)
        /\ Len(lines) = Len(audit_calls)
        /\ \A i \in 1..Len(audit_calls) :
              /\ lines[i] = Dumps(ExpectedRecord(i))
              /\ audit_calls[i].before = JoinLines(SubSeq(lines, 1, i - 1))

\* Two calls were made, the second with a value that holds a newline, and the
\* file holds two lines.
C14_Witness ==
    /\ Len(audit_calls) = 2
    /\ \E j \in DOMAIN audit_calls[2].event : audit_calls[2].event[j][2] = AwkwardValue
    /\ Len(Lines(audit_log)) = 2

\* C15: write_audit_event leaves the caller's mapping as it was (same keys in
\* the same order, same values), and the dict it serialises has the keys of
\* the input plus timestamp, the input's value for every key but timestamp,
\* and the time of the call as timestamp.
C15_CallerEventNotMutated ==
    \A i \in 1..Len(audit_calls) :
        LET c == audit_calls[i]
        IN  /\ c.caller_event = c.event
            /\ DictKeys(c.event_to_write) = DictKeys(c.event) \cup {"timestamp"}
            /\ Len(c.event_to_write) = Cardinality(DictKeys(c.event_to_write))
            /\ \A k \in DictKeys(c.event) \ {"timestamp"} :
                  DictGet(c.event_to_write, k) = DictGet(c.event, k)
            /\ DictGet(c.event_to_write, "timestamp")
                  = ReplaceOffset(IsoFormat(c.now))

\* The caller's event carried a timestamp of its own, which it still has
\* after the call, while the record written carries the time of the call.
C15_Witness ==
    \E i \in 1..Len(audit_calls) :
        /\ "timestamp" \in DictKeys(audit_calls[i].event)
        /\ DictGet(audit_calls[i].caller_event, "timestamp") = PlainValue
        /\ DictGet(audit_calls[i].event_to_write, "timestamp") # PlainValue
        /\ Len(Lines(audit_log)) >= i

\* The coroutines of an identity that have stored the counter.
StoredTasks(identity) ==
    {t \in DOMAIN tasks : /\ _get_identity(tasks[t].hdr) = identity
                          /\ tasks[t].pc \in {"call_next", "done"}}

\* C16: under every interleaving of concurrent dispatch coroutines within one
\* window, the stored count of an identity is the number of its coroutines
\* that have stored the counter (no increment is lost), and at most
\* max_requests of them are forwarded.
C16_AtomicReadModifyWrite ==
    \A t \in DOMAIN tasks :
        LET identity == _get_identity(tasks[t].hdr)
            stored == StoredTasks(identity)
        IN  /\ stored # {} =>
                  /\ identity \in DOMAIN rl_state
                  /\ rl_state[identity][2] = Cardinality(stored)
            /\ stored = {} => identity \notin DOMAIN rl_state
            /\ Cardinality({u \in stored : tasks[u].forwarded}) <= rl_max

\* All coroutines belong to one identity and have stored; one was rejected
\* while an admitted one was still awaiting the downstream handler.
C16_Witness ==
    /\ tasks # <<>>
    /\ \A t \in DOMAIN tasks : tasks[t].hdr = Some("k1")
    /\ "k1" \in DOMAIN rl_state
    /\ rl_state["k1"][2] = NTasks
    /\ \E t, u \in DOMAIN tasks :
          /\ tasks[t].pc = "call_next"
          /\ tasks[u].pc = "done" /\ tasks[u].status = 429

\* Step a ran for the last request, and before step b did.
RanBefore(a, b) ==
    \E i, j \in DOMAIN last_req.steps :
        i < j /\ last_req.steps[i] = a /\ last_req.steps[j] = b

Ran(a) == \E i \in DOMAIN last_req.steps : last_req.steps[i] = a

\* C13: for every request the steps run in the order authentication, then
\* rate-limit check, then correlation-id assignment and handler: the rate
\* limiter's counter is reached only after the API key was checked, and the
\* id is assigned and the handler run only after the rate-limit check.
C13_FixedPipelineOrder ==
    last_req.route # "none" =>
        /\ Ran("rate_limit") => RanBefore("require_api_key", "rate_limit")
        /\ Ran("request_id") => RanBefore("rate_limit", "request_id")
        /\ Ran("handler") => RanBefore("rate_limit", "handler")

\* The errors a call raises for an unusable manifest: json.loads failing,
\* .get on something that is no dict, and the two RuntimeErrors of lines 55, 62.
ManifestInvalidErrors ==
    {"json_decode_error", "attribute_error", "manifest_no_active_model",
     "manifest_fields"}

\* C21: a load_active_model call fails with the first failing condition in
\* the order manifest missing, manifest invalid, artifact missing, checksum
\* mismatch; whenever the manifest has no well-formed active_model section or
\* one of version, path, sha256 is absent, null or empty after trimming, the
\* call fails with a manifest-invalid error without touching the artifact.
C21_FirstFailingConditionReported ==
    \A i \in 1..Len(load_log) :
        LET call == load_log[i]
            r == call.result
        IN  IF IsNone(call.manifest)
            THEN ~r.ok /\ r.error = "manifest_missing" /\ call.accesses = <<>>
            ELSE IF ~WellFormed(call.manifest)
            THEN ~r.ok /\ r.error \in ManifestInvalidErrors /\ call.accesses = <<>>
            ELSE IF DeclaredPath(call.manifest) \notin DOMAIN call.files
            THEN ~r.ok /\ r.error = "artifact_missing"
            ELSE ~r.ok => r.error = "checksum_mismatch"

\* The key references authenticate gives the two roles (CallerIdentity.key_id).
KeyReferences == {"admin-key", "service-key"}

\* C22: every key of the rate limiter's state is a caller's key reference or
\* the literal "anonymous"; neither a configured credential nor the X-API-Key
\* value a request presented is a key of the state.
C22_StateKeyedByOpaqueReference ==
    /\ DOMAIN rl_state \subseteq KeyReferences \cup {"anonymous"}
    /\ \A n \in DOMAIN environ : environ[n] \notin DOMAIN rl_state
    /\ ~IsNone(last_req.key) => Val(last_req.key) \notin DOMAIN rl_state

\* What a step does to the limiter's state: no entry is removed; a dispatch
\* for identity A creates or updates A's entry only, leaves every other entry
\* as it was, and leaves unchanged what a request of any other identity
\* would be answered; a step without a dispatch changes no entry.
DispatchFrame ==
    /\ DOMAIN rl_state \subseteq DOMAIN rl_state'
    /\ IF rl_log' = rl_log
       THEN rl_state' = rl_state
       ELSE LET rec == rl_log'[Len(rl_log')]
            IN  /\ DOMAIN rl_state' = DOMAIN rl_state \cup {rec.identity}
                /\ rl_state'[rec.identity] = rec.stored
                /\ \A id \in DOMAIN rl_state \ {rec.identity} :
                      rl_state'[id] = rl_state[id]
                /\ \A h \in RateHeaders :
                      _get_identity(h) # rec.identity
                          => DispatchRecord(h)' = DispatchRecord(h)

\* C23: a dispatch for identity A changes only A's entry: every other
\* identity's (window_start, count) stays as it was, an entry comes into
\* being with its identity's first request, no entry is ever removed, and
\* the answer any other identity would get is not changed by A's request.
C23_DispatchChangesOnlyOwnEntry == [][DispatchFrame]_vars

\* Two identities have entries; between two requests of one of them the
\* other one made a request, and the second request continued the count of
\* the first.
C23_Witness ==
    /\ Cardinality(DOMAIN rl_state) >= 2
    /\ \E i, j, k \in 1..Len(rl_log) :
          /\ i < j /\ j < k
          /\ rl_log[i].identity = rl_log[k].identity
          /\ rl_log[j].identity # rl_log[i].identity
          /\ rl_log[k].stored = <<rl_log[i].stored[1], rl_log[i].stored[2] + 1>>
          /\ rl_state[rl_log[j].identity] = rl_log[j].stored

====
